---- MODULE Spec2Model ----
(***************************************************************************)
(* Model of the e-commerce backend in src/index.js: the Users collection,  *)
(* JWT issue/verify, the fetchUser middleware, the signup, login and cart   *)
(* request handlers, and the Product collection with the addproduct and    *)
(* removeproduct handlers.  Every request handler is an async function: a  *)
(* handler suspends at each `await` of a store call, so one step of the    *)
(* model is one store call together with the synchronous code that runs    *)
(* when its result comes back (up to the next `await` or the response).    *)
(***************************************************************************)
EXTENDS Integers, Sequences, FiniteSets, TLC

\* ---------------------------------------------------------------- bounds
\* Total number of requests the clients send in one run (Spec).
MaxReqs == 3
\* Total number of requests in a run where requests are served one at a time
\* (SpecSerial).
MaxSerialReqs == 4
\* Total number of requests to the product routes in one run (SpecCatalog,
\* SpecCatalogSerial).
MaxCatalogReqs == 4

\* ------------------------------------------------------ program constants
\* for (let i = 0; i < 300; i++) cart[i] = 0
NumSlots == 300
\* jwt.verify(token, 'secret_ecom')
VerifySecret == "secret_ecom"
\* process.env.SECRET_KEY || 'default_secret'
DefaultSecret == "default_secret"

\* ------------------------------------------------------------ input sets
\* Concurrent request handlers (requests in flight at the same time).
Handlers == {1, 2}
\* Values of the SECRET_KEY environment variable ("" is unset).
EnvSecrets == {"", "secret_ecom"}
\* Secrets a client may have signed a token with.
ClientSecrets == {"secret_ecom", "default_secret"}
Emails == {"a@x.com", "b@x.com"}
\* Passwords of signup requests, and of login requests.
SignupPasswords == {"p"}
Passwords == {"p", "q"}
Usernames == {"ann"}
\* itemId values of cart requests: two slots of the cart and one key
\* outside [0, NumSlots).
ItemIds == {0, NumSlots - 1, NumSlots}
\* _id values a token may carry: the ids of the users that can exist (an id
\* has no user record until that user has signed up).
UserIds == 1..Cardinality(Emails)
\* name of addproduct requests; id of removeproduct requests.
ProductNames == {"shirt"}
ProductIds == 1..MaxCatalogReqs

\* ------------------------------------------------------- JS number values
\* A quantity is a JS number: <<n>> is the integer n, <<>> is NaN.
Num(n) == <<n>>
NaN == <<>>
IsNum(v) == Len(v) = 1
\* v + 1 (NaN + 1 is NaN)
PlusOne(v) == IF IsNum(v) THEN Num(v[1] + 1) ELSE NaN
\* v - 1
MinusOne(v) == IF IsNum(v) THEN Num(v[1] - 1) ELSE NaN
\* v > 0 (NaN > 0 is false)
GreaterThanZero(v) == IsNum(v) /\ v[1] > 0

\* res.json(...) encodes with JSON.stringify, which writes NaN as null.
\* <<0, 0>> stands for null.
Null == <<0, 0>>
ToJson(v) == IF IsNum(v) THEN v ELSE Null
\* The JSON body of a cartData object.
CartJson(cartData) == [k \in DOMAIN cartData |-> ToJson(cartData[k])]

\* ------------------------------------------------------------------ JWT
NoToken == [kind |-> "none", id |-> 0, key |-> ""]
Malformed == [kind |-> "malformed", id |-> 0, key |-> ""]
\* jwt.sign({user: {id}}, key)
Sign(id, key) == [kind |-> "jwt", id |-> id, key |-> key]
\* (variant: jwt.decode in place of jwt.verify, the signature is not checked)
VerifyOkDecodeOnly(token, key) == token.kind = "jwt"
\* jwt.verify(token, key) returns the payload or throws
VerifyOk(token, key) == token.kind = "jwt" /\ token.key = key
VerifyId(token) == token.id
\* Tokens a client may put in the auth-token header.
Tokens == {NoToken, Malformed} \cup {Sign(i, k) : i \in UserIds, k \in ClientSecrets}

VARIABLES
  SECRET_KEY,   \* process.env.SECRET_KEY
  users,        \* the Users collection, in insertion order; _id is the index
  products,     \* the Product collection, in the order Product.find({}) returns
  pc,           \* where each request handler is suspended
  req,          \* the request each handler is serving
  loc,          \* the handler's locals: req.user, userData.cartData
  last,         \* the last exchange completed: the request and its response
  nreq,         \* number of requests received
  tally         \* per user and key: completed addtocart / removefromcart

vars == <<SECRET_KEY, users, products, pc, req, loc, last, nreq, tally>>

\* const secretKey = process.env.SECRET_KEY || 'default_secret'
secretKey == IF SECRET_KEY = "" THEN DefaultSecret ELSE SECRET_KEY

\* (variant: i <= 300 in the loop)
ZeroCartOffByOne == [i \in 0..NumSlots |-> Num(0)]
\* let cart = {}; for (let i = 0; i < 300; i++) cart[i] = 0;
ZeroCart == [i \in 0..(NumSlots - 1) |-> Num(0)]
NoCart == [i \in {} |-> NaN]

\* A request: the route and the fields of header and body the routes read.
\* complete: the body of a product request passes the schema (every required
\* field is there, the id casts to Number).
NoReq == [route |-> "", username |-> "", email |-> "", password |-> "",
          token |-> NoToken, itemId |-> 0,
          name |-> "", id |-> 0, complete |-> FALSE]
NoLoc == [user |-> 0, cartData |-> NoCart, verifyCalled |-> FALSE, id |-> 0]
\* A response: HTTP status, body (tag), token and cart carried in the body.
\* An exchange: a request, its response, and whether jwt.verify was called.
NoResp == [status |-> 0, body |-> "", token |-> NoToken, cart |-> NoCart]
NoExchange == [req |-> NoReq, resp |-> NoResp, verifyCalled |-> FALSE]

CartRoutes == {"addtocart", "removefromcart", "getcart"}

\* (variant: the query matches no document)
FindByEmailMiss(email) == 0
\* Users.findOne({email}): index of the first user with that email, 0 if none
FindByEmail(email) ==
  IF \E i \in 1..Len(users) : users[i].email = email
  THEN CHOOSE i \in 1..Len(users) :
         /\ users[i].email = email
         /\ \A j \in 1..(i - 1) : users[j].email # email
  ELSE 0

\* Users.findOne({_id: id}) finds a document
FoundById(id) == id \in 1..Len(users)

\* (variant: the schema without unique: true)
UniqueIndexOff(email) == TRUE
\* email: { type: String, unique: true }: the unique index accepts the insert
UniqueIndexAccepts(email) == \A i \in 1..Len(users) : users[i].email # email

TallyZero == [u \in UserIds, k \in ItemIds |-> [adds |-> 0, rems |-> 0, ordered |-> TRUE]]

Init ==
  /\ SECRET_KEY \in EnvSecrets
  /\ users = <<>>
  /\ products = <<>>
  /\ pc = [h \in Handlers |-> "idle"]
  /\ req = [h \in Handlers |-> NoReq]
  /\ loc = [h \in Handlers |-> NoLoc]
  /\ last = NoExchange
  /\ nreq = 0
  /\ tally = TallyZero

\* A request is served by the first handler that is not serving one.
Free(h) == pc[h] = "idle" /\ \A g \in Handlers : g < h => pc[g] # "idle"

\* The request reaches its handler, which runs to its first await.
Receive(h, r, nextpc) ==
  /\ Free(h)
  /\ nreq' = nreq + 1
  /\ req' = [req EXCEPT ![h] = r]
  /\ loc' = [loc EXCEPT ![h] = NoLoc]
  /\ pc' = [pc EXCEPT ![h] = nextpc]
  /\ last' = last

\* res.status(s).json(...) / res.send(...): the handler answers request r
\* and returns.
Respond(h, r, answer, verified) ==
  /\ last' = [req |-> r, resp |-> answer, verifyCalled |-> verified]
  /\ pc' = [pc EXCEPT ![h] = "idle"]
  /\ req' = [req EXCEPT ![h] = NoReq]
  /\ loc' = [loc EXCEPT ![h] = NoLoc]

\* The handler of the request in flight answers it.
Reply(h, answer) == Respond(h, req[h], answer, loc[h].verifyCalled)

\* An exception in an async handler rejects its promise.  Express 4 does not
\* observe the promise: no response is ever sent and the request stays
\* open.  Express 5 forwards the error to the default error handler, which
\* answers 500.
RejectionOutcomes == {"no_response", "500"}
Throw(h, outcome) ==
  IF outcome = "500"
  THEN Reply(h, [NoResp EXCEPT !.status = 500,
                                         !.body = "Internal Server Error"])
  ELSE /\ pc' = [pc EXCEPT ![h] = "threw"]
       /\ UNCHANGED <<req, loc, last>>

\* ------------------------------------------------------------ POST /signup
ReqSignup(h, username, email, password) ==
  /\ Receive(h, [NoReq EXCEPT !.route = "signup", !.username = username,
                              !.email = email, !.password = password],
             "signup_find")
  /\ UNCHANGED <<SECRET_KEY, products, users, tally>>

\* let check = await Users.findOne({email}); if (check) return 400 ...
SignupFindOne(h) ==
  /\ pc[h] = "signup_find"
  /\ IF FindByEmail(req[h].email) # 0
     THEN Reply(h, [NoResp EXCEPT !.status = 400, !.body = "success:false"])
     ELSE /\ pc' = [pc EXCEPT ![h] = "signup_save"]
          /\ loc' = [loc EXCEPT ![h].cartData = ZeroCart]
          /\ UNCHANGED <<req, last>>
  /\ UNCHANGED <<SECRET_KEY, products, users, nreq, tally>>

\* await user.save(); const token = jwt.sign(data, secretKey); res.json(...)
SignupSave(h) ==
  /\ pc[h] = "signup_save"
  /\ IF UniqueIndexAccepts(req[h].email)
     THEN /\ users' = Append(users, [name |-> req[h].username,
                                     email |-> req[h].email,
                                     password |-> req[h].password,
                                     cartData |-> loc[h].cartData])
          /\ Reply(h, [NoResp EXCEPT !.status = 200, !.body = "success:true",
                                       !.token = Sign(Len(users) + 1, secretKey)])
     ELSE /\ \E o \in RejectionOutcomes : Throw(h, o)
          /\ users' = users
  /\ UNCHANGED <<SECRET_KEY, products, nreq, tally>>

\* ------------------------------------------------------------- POST /login
ReqLogin(h, email, password) ==
  /\ Receive(h, [NoReq EXCEPT !.route = "login", !.email = email,
                              !.password = password], "login_find")
  /\ UNCHANGED <<SECRET_KEY, products, users, tally>>

\* (variant: the comparison result is not used)
PassCompareLoose(supplied, stored) == TRUE
\* const passCompare = req.body.password === user.password
PassCompare(supplied, stored) == supplied = stored

\* let user = await Users.findOne({email}); if (user) { passCompare ... }
LoginFindOne(h) ==
  /\ pc[h] = "login_find"
  /\ LET user == FindByEmail(req[h].email) IN
     IF user # 0
     THEN IF PassCompare(req[h].password, users[user].password)
          THEN Reply(h, [NoResp EXCEPT !.status = 200, !.body = "success:true",
                                         !.token = Sign(user, secretKey)])
          ELSE Reply(h, [NoResp EXCEPT !.status = 200, !.body = "Wrong Password"])
     ELSE Reply(h, [NoResp EXCEPT !.status = 200, !.body = "Wrong Email Id"])
  /\ UNCHANGED <<SECRET_KEY, products, users, nreq, tally>>

\* ------------------------------------------------------------- fetchUser
\* (variant: next() is also called when the header is missing)
FetchUserNextOnMissing(token) ==
  IF token = NoToken
  THEN [next |-> TRUE, user |-> 0, verifyCalled |-> FALSE, body |-> ""]
  ELSE IF VerifyOk(token, VerifySecret)
       THEN [next |-> TRUE, user |-> VerifyId(token), verifyCalled |-> TRUE,
             body |-> ""]
       ELSE [next |-> FALSE, user |-> 0, verifyCalled |-> TRUE,
             body |-> "Please authenticated using a valid token"]
\* The middleware of the cart routes: the outcome for an auth-token header.
\* next: next() is called; user: req.user.id; verifyCalled: jwt.verify ran;
\* body: the 401 message.
FetchUser(token) ==
  IF token = NoToken
  THEN [next |-> FALSE, user |-> 0, verifyCalled |-> FALSE,
        body |-> "Please authenticated using valid token"]
  ELSE IF VerifyOk(token, VerifySecret)
       THEN [next |-> TRUE, user |-> VerifyId(token), verifyCalled |-> TRUE,
             body |-> ""]
       ELSE [next |-> FALSE, user |-> 0, verifyCalled |-> TRUE,
             body |-> "Please authenticated using a valid token"]

\* A request to a cart route: fetchUser runs first, the handler only on next().
ReceiveCart(h, route, token, itemId, nextpc) ==
  LET gate == FetchUser(token)
      r == [NoReq EXCEPT !.route = route, !.token = token, !.itemId = itemId]
  IN
  /\ Free(h)
  /\ nreq' = nreq + 1
  /\ IF gate.next
     THEN /\ pc' = [pc EXCEPT ![h] = nextpc]
          /\ req' = [req EXCEPT ![h] = r]
          /\ loc' = [loc EXCEPT ![h] = [NoLoc EXCEPT !.user = gate.user,
                                                  !.verifyCalled = gate.verifyCalled]]
          /\ last' = last
     ELSE Respond(h, r, [NoResp EXCEPT !.status = 401, !.body = gate.body],
                  gate.verifyCalled)
  /\ UNCHANGED <<SECRET_KEY, products, users, tally>>

\* --------------------------------------------------------- POST /addtocart
\* (variant: = 1 in place of += 1)
AddToCartSetsOne(cartData, itemId) ==
  IF itemId \in DOMAIN cartData
  THEN [cartData EXCEPT ![itemId] = Num(1)]
  ELSE cartData @@ (itemId :> Num(1))
\* userData.cartData[itemId] += 1 (undefined + 1 is NaN)
AddToCart(cartData, itemId) ==
  IF itemId \in DOMAIN cartData
  THEN [cartData EXCEPT ![itemId] = PlusOne(@)]
  ELSE cartData @@ (itemId :> NaN)

ReqAddToCart(h, token, itemId) ==
  ReceiveCart(h, "addtocart", token, itemId, "add_find")

\* let userData = await Users.findOne({_id: req.user.id}); cartData[itemId] += 1
AddFindOne(h) ==
  /\ pc[h] = "add_find"
  /\ IF FoundById(loc[h].user)
     THEN /\ loc' = [loc EXCEPT ![h].cartData =
                       AddToCart(users[loc[h].user].cartData, req[h].itemId)]
          /\ pc' = [pc EXCEPT ![h] = "add_update"]
          /\ UNCHANGED <<req, last>>
     ELSE \E o \in RejectionOutcomes : Throw(h, o)
  /\ UNCHANGED <<SECRET_KEY, products, users, nreq, tally>>

\* (variant: the update with an empty filter, which matches the first user)
AddUpdateFirstUser(h) ==
  /\ pc[h] = "add_update"
  /\ users' = [users EXCEPT ![1].cartData = loc[h].cartData]
  /\ Reply(h, [NoResp EXCEPT !.status = 200, !.body = "Added"])
  /\ tally' = [tally EXCEPT ![loc[h].user, req[h].itemId] =
                 [adds |-> @.adds + 1, rems |-> @.rems,
                  ordered |-> @.ordered /\ @.rems = 0]]
  /\ UNCHANGED <<SECRET_KEY, products, nreq>>
\* (variant: the increment applied to the stored cart in the update itself)
AddUpdateAtomic(h) ==
  /\ pc[h] = "add_update"
  /\ users' = [users EXCEPT ![loc[h].user].cartData =
                 AddToCart(@, req[h].itemId)]
  /\ Reply(h, [NoResp EXCEPT !.status = 200, !.body = "Added"])
  /\ tally' = [tally EXCEPT ![loc[h].user, req[h].itemId] =
                 [adds |-> @.adds + 1, rems |-> @.rems,
                  ordered |-> @.ordered /\ @.rems = 0]]
  /\ UNCHANGED <<SECRET_KEY, products, nreq>>
\* await Users.findOneAndUpdate({_id}, {cartData: userData.cartData}); res.send("Added")
AddUpdate(h) ==
  /\ pc[h] = "add_update"
  /\ users' = [users EXCEPT ![loc[h].user].cartData = loc[h].cartData]
  /\ Reply(h, [NoResp EXCEPT !.status = 200, !.body = "Added"])
  /\ tally' = [tally EXCEPT ![loc[h].user, req[h].itemId] =
                 [adds |-> @.adds + 1, rems |-> @.rems,
                  ordered |-> @.ordered /\ @.rems = 0]]
  /\ UNCHANGED <<SECRET_KEY, products, nreq>>

\* ---------------------------------------------------- POST /removefromcart
\* (variant: a quantity that is not above zero has its key deleted)
RemoveFromCartDropsAtZero(cartData, itemId) ==
  IF itemId \in DOMAIN cartData /\ GreaterThanZero(cartData[itemId])
  THEN [cartData EXCEPT ![itemId] = MinusOne(@)]
  ELSE [k \in DOMAIN cartData \ {itemId} |-> cartData[k]]
\* (variant: the decrement without the > 0 test)
RemoveFromCartNoFloor(cartData, itemId) ==
  IF itemId \in DOMAIN cartData
  THEN [cartData EXCEPT ![itemId] = MinusOne(@)]
  ELSE cartData @@ (itemId :> NaN)
\* if (userData.cartData[itemId] > 0) userData.cartData[itemId] -= 1
RemoveFromCart(cartData, itemId) ==
  IF itemId \in DOMAIN cartData /\ GreaterThanZero(cartData[itemId])
  THEN [cartData EXCEPT ![itemId] = MinusOne(@)]
  ELSE cartData

ReqRemoveFromCart(h, token, itemId) ==
  ReceiveCart(h, "removefromcart", token, itemId, "rem_find")

RemFindOne(h) ==
  /\ pc[h] = "rem_find"
  /\ IF FoundById(loc[h].user)
     THEN /\ loc' = [loc EXCEPT ![h].cartData =
                       RemoveFromCart(users[loc[h].user].cartData, req[h].itemId)]
          /\ pc' = [pc EXCEPT ![h] = "rem_update"]
          /\ UNCHANGED <<req, last>>
     ELSE \E o \in RejectionOutcomes : Throw(h, o)
  /\ UNCHANGED <<SECRET_KEY, products, users, nreq, tally>>

\* await Users.findOneAndUpdate({_id}, {cartData: userData.cartData}); res.send("Removed")
RemUpdate(h) ==
  /\ pc[h] = "rem_update"
  /\ users' = [users EXCEPT ![loc[h].user].cartData = loc[h].cartData]
  /\ Reply(h, [NoResp EXCEPT !.status = 200, !.body = "Removed"])
  /\ tally' = [tally EXCEPT ![loc[h].user, req[h].itemId] =
                 [adds |-> @.adds, rems |-> @.rems + 1, ordered |-> @.ordered]]
  /\ UNCHANGED <<SECRET_KEY, products, nreq>>

\* ----------------------------------------------------------- POST /getcart
ReqGetCart(h, token) ==
  ReceiveCart(h, "getcart", token, 0, "get_find")

\* let userData = await Users.findOne({_id: req.user.id}); res.json(userData.cartData)
GetFindOne(h) ==
  /\ pc[h] = "get_find"
  /\ IF FoundById(loc[h].user)
     THEN Reply(h, [NoResp EXCEPT !.status = 200, !.body = "cartData",
                                    !.cart = CartJson(users[loc[h].user].cartData)])
     ELSE \E o \in RejectionOutcomes : Throw(h, o)
  /\ UNCHANGED <<SECRET_KEY, products, users, nreq, tally>>

\* -------------------------------------------------------- POST /addproduct
\* (variant: the id is the number of products plus one)
NextIdByCount(list) == Len(list) + 1
\* if (products.length > 0) id = products.slice(-1)[0].id + 1; else id = 1
NextId(list) == IF Len(list) > 0 THEN list[Len(list)].id + 1 ELSE 1

\* (variant: the schema with unique: true on id)
ProductSaveAcceptsUniqueId(list, doc, complete) ==
  complete /\ \A i \in 1..Len(list) : list[i].id # doc.id
\* product.save(): the Product schema validates the document (the required
\* fields); no index constrains id
ProductSaveAccepts(list, doc, complete) == complete

ReqAddProduct(h, name, complete) ==
  /\ Receive(h, [NoReq EXCEPT !.route = "addproduct", !.name = name,
                              !.complete = complete], "addp_find")
  /\ UNCHANGED <<SECRET_KEY, products, users, tally>>

\* let products = await Product.find({}); ... id = lastProduct.id + 1
AddProductFind(h) ==
  /\ pc[h] = "addp_find"
  /\ loc' = [loc EXCEPT ![h].id = NextId(products)]
  /\ pc' = [pc EXCEPT ![h] = "addp_save"]
  /\ UNCHANGED <<SECRET_KEY, products, users, req, last, nreq, tally>>

\* await product.save(); res.json({success: true, name}); catch: 500
AddProductSave(h) ==
  /\ pc[h] = "addp_save"
  /\ LET doc == [id |-> loc[h].id, name |-> req[h].name] IN
     IF ProductSaveAccepts(products, doc, req[h].complete)
     THEN /\ products' = Append(products, doc)
          /\ Reply(h, [NoResp EXCEPT !.status = 200, !.body = "success:true"])
     ELSE /\ products' = products
          /\ Reply(h, [NoResp EXCEPT !.status = 500,
                         !.body = "Error adding product to the database."])
  /\ UNCHANGED <<SECRET_KEY, users, nreq, tally>>

\* ----------------------------------------------------- POST /removeproduct
\* Product.findOneAndDelete({id}): the list without its first product with
\* that id
FindOneAndDelete(list, id) ==
  IF \E i \in 1..Len(list) : list[i].id = id
  THEN LET i == CHOOSE i \in 1..Len(list) :
                  /\ list[i].id = id
                  /\ \A j \in 1..(i - 1) : list[j].id # id
       IN SubSeq(list, 1, i - 1) \o SubSeq(list, i + 1, Len(list))
  ELSE list

ReqRemoveProduct(h, id, complete) ==
  /\ Receive(h, [NoReq EXCEPT !.route = "removeproduct", !.id = id,
                              !.complete = complete], "remp_delete")
  /\ UNCHANGED <<SECRET_KEY, products, users, tally>>

\* await Product.findOneAndDelete({id: req.body.id}); res.json(...); catch: 500
RemoveProductDelete(h) ==
  /\ pc[h] = "remp_delete"
  /\ IF req[h].complete
     THEN /\ products' = FindOneAndDelete(products, req[h].id)
          /\ Reply(h, [NoResp EXCEPT !.status = 200, !.body = "success:true"])
     ELSE /\ products' = products
          /\ Reply(h, [NoResp EXCEPT !.status = 500,
                         !.body = "Error removing product from the database."])
  /\ UNCHANGED <<SECRET_KEY, users, nreq, tally>>

\* ---------------------------------------------------------- specifications
\* A client sends a request.
Arrive(h) ==
  \/ \E n \in Usernames, e \in Emails, p \in SignupPasswords : ReqSignup(h, n, e, p)
  \/ \E e \in Emails, p \in Passwords : ReqLogin(h, e, p)
  \/ \E t \in Tokens, i \in ItemIds : ReqAddToCart(h, t, i)
  \/ \E t \in Tokens, i \in ItemIds : ReqRemoveFromCart(h, t, i)
  \/ \E t \in Tokens : ReqGetCart(h, t)

\* A store call of a suspended handler completes and the handler runs on.
Resume(h) ==
  \/ SignupFindOne(h)
  \/ SignupSave(h)
  \/ LoginFindOne(h)
  \/ AddFindOne(h)
  \/ AddUpdate(h)
  \/ RemFindOne(h)
  \/ RemUpdate(h)
  \/ GetFindOne(h)

\* Requests are handled concurrently: handlers interleave at their awaits.
Next ==
  \E h \in Handlers :
    \/ nreq < MaxReqs /\ Arrive(h)
    \/ Resume(h)

Spec == Init /\ [][Next]_vars

\* No request is being served (one that threw stays open for ever).
Quiet == \A g \in Handlers : pc[g] \in {"idle", "threw"}

\* A client sends a request; on the cart routes it presents a token that
\* fetchUser accepts.
ArriveAuthenticated(h) ==
  \/ \E n \in Usernames, e \in Emails, p \in SignupPasswords : ReqSignup(h, n, e, p)
  \/ \E e \in Emails, p \in Passwords : ReqLogin(h, e, p)
  \/ \E u \in UserIds, i \in ItemIds : ReqAddToCart(h, Sign(u, VerifySecret), i)
  \/ \E u \in UserIds, i \in ItemIds : ReqRemoveFromCart(h, Sign(u, VerifySecret), i)
  \/ \E u \in UserIds : ReqGetCart(h, Sign(u, VerifySecret))

\* A client sends a request; every addtocart and removefromcart names a
\* slot of the cart.
ArriveInRange(h) ==
  \/ \E n \in Usernames, e \in Emails, p \in SignupPasswords : ReqSignup(h, n, e, p)
  \/ \E e \in Emails, p \in Passwords : ReqLogin(h, e, p)
  \/ \E t \in Tokens, i \in ItemIds \cap (0..(NumSlots - 1)) : ReqAddToCart(h, t, i)
  \/ \E t \in Tokens, i \in ItemIds \cap (0..(NumSlots - 1)) :
       ReqRemoveFromCart(h, t, i)
  \/ \E t \in Tokens : ReqGetCart(h, t)

\* Concurrent handling of requests whose item ids are slots of the cart.
NextInRange ==
  \E h \in Handlers :
    \/ nreq < MaxReqs /\ ArriveInRange(h)
    \/ Resume(h)

SpecInRange == Init /\ [][NextInRange]_vars

\* Each request runs to completion before the next one starts.
NextSerial ==
  \E h \in Handlers :
    \/ nreq < MaxSerialReqs /\ Quiet /\ ArriveAuthenticated(h)
    \/ Resume(h)

SpecSerial == Init /\ [][NextSerial]_vars

\* The product routes share no state with the user routes; they are
\* explored on their own.
ArriveCatalog(h) ==
  \/ \E n \in ProductNames, c \in BOOLEAN : ReqAddProduct(h, n, c)
  \/ \E i \in ProductIds, c \in BOOLEAN : ReqRemoveProduct(h, i, c)

ResumeCatalog(h) ==
  \/ AddProductFind(h)
  \/ AddProductSave(h)
  \/ RemoveProductDelete(h)

\* Product requests handled concurrently.
NextCatalog ==
  \E h \in Handlers :
    \/ nreq < MaxCatalogReqs /\ ArriveCatalog(h)
    \/ ResumeCatalog(h)

SpecCatalog == Init /\ [][NextCatalog]_vars

\* Product requests handled one at a time.
NextCatalogSerial ==
  \E h \in Handlers :
    \/ nreq < MaxCatalogReqs /\ Quiet /\ ArriveCatalog(h)
    \/ ResumeCatalog(h)

SpecCatalogSerial == Init /\ [][NextCatalogSerial]_vars

\* ================================================================ claims
\* The slots of the cart: the keys signup creates.
SlotRange == 0..(NumSlots - 1)
\* Some stored user has this email.
EmailTaken(email) == \E i \in 1..Len(users) : users[i].email = email
\* The handler h answered its request in this step.
Answered(h, at) == pc[h] = at /\ pc'[h] = "idle"

\* C1: starting from a freshly signed-up user, after N addtocart requests
\* followed by M removefromcart requests (M <= N) on one slot in [0,300),
\* each request running to completion before the next starts, the stored
\* quantity of the slot is N - M.
C1_AddsThenRemoves ==
  \A u \in UserIds, s \in ItemIds \cap SlotRange :
    (/\ Quiet
     /\ u \in 1..Len(users)
     /\ tally[u, s].ordered
     /\ tally[u, s].rems <= tally[u, s].adds)
    => users[u].cartData[s] = Num(tally[u, s].adds - tally[u, s].rems)

\* C1 witness: two adds then one remove on a slot have completed.
C1_Witness ==
  \E u \in UserIds, s \in ItemIds \cap SlotRange :
    /\ Quiet
    /\ u \in 1..Len(users)
    /\ tally[u, s] = [adds |-> 2, rems |-> 1, ordered |-> TRUE]

\* Every stored quantity of a slot is a number, and no stored quantity is
\* a negative number.
C2_Stored ==
  \A u \in 1..Len(users) : \A k \in DOMAIN users[u].cartData :
    LET q == users[u].cartData[k] IN
    /\ k \in SlotRange => IsNum(q)
    /\ IsNum(q) => q[1] >= 0

\* A removefromcart that reads quantity 0 for its slot writes 0 back.
C2_RemoveAtZero ==
  \A h \in Handlers :
    /\ (/\ pc[h] = "rem_find" /\ pc'[h] = "rem_update"
        /\ req[h].itemId \in DOMAIN users[loc[h].user].cartData
        /\ users[loc[h].user].cartData[req[h].itemId] = Num(0))
       => loc'[h].cartData[req[h].itemId] = Num(0)
    /\ Answered(h, "rem_update")
       => users'[loc[h].user].cartData = loc[h].cartData

\* C2: under any interleaving of signup, addtocart and removefromcart
\* requests, every slot quantity stored in a user's cartData is >= 0, and
\* removefromcart on a slot whose quantity is 0 leaves it at 0.  (The users
\* collection is empty at start, so it is enough that every step that
\* changes it leads to a state where the stored quantities are >= 0.)
C2_NeverNegative == [][(users' # users => C2_Stored') /\ C2_RemoveAtZero]_vars

\* C2 witness: a removefromcart on a slot with quantity 0 has completed and
\* the slot is at 0.
C2_Witness ==
  /\ last.req.route = "removefromcart"
  /\ last.resp.status = 200
  /\ last.req.itemId \in SlotRange
  /\ tally[last.req.token.id, last.req.itemId].adds = 0
  /\ users[last.req.token.id].cartData[last.req.itemId] = Num(0)

\* C3: a token issued by signup or login is accepted by fetchUser and
\* resolves to the id of the user it was issued for.
C3_RoundTrip ==
  last.resp.token # NoToken
  => /\ last.resp.token.kind = "jwt"
     /\ last.resp.token.key = VerifySecret
     /\ FetchUser(last.resp.token).next
     /\ FetchUser(last.resp.token).user \in 1..Len(users)
     /\ users[FetchUser(last.resp.token).user].email = last.req.email

\* A token fetchUser must refuse: malformed, or signed with another secret.
BadToken(t) == t.kind = "malformed" \/ (t.kind = "jwt" /\ t.key # VerifySecret)

\* C4: a cart request whose token is malformed or signed with a secret other
\* than the verification secret is answered 401 and its handler does not run.
C4_VerifyFails ==
  /\ (last.req.route \in CartRoutes /\ BadToken(last.req.token))
     => last.resp.status = 401
  /\ \A h \in Handlers : ~BadToken(req[h].token)

\* C4 witness: a token signed with another secret has been refused.
C4_Witness ==
  /\ last.req.route \in CartRoutes
  /\ last.req.token.kind = "jwt"
  /\ last.req.token.key # VerifySecret
  /\ last.resp.status = 401

\* The outcome of fetchUser as seen in the exchanges and the handlers.
C5_Gate ==
  /\ (last.req.route \in CartRoutes /\ last.req.token = NoToken)
     => (last.resp.status = 401 /\ ~last.verifyCalled)
  /\ (last.req.route \in CartRoutes /\ last.req.token # NoToken
        /\ ~(last.req.token.kind = "jwt" /\ last.req.token.key = VerifySecret))
     => (last.resp.status = 401 /\ last.verifyCalled)
  /\ \A h \in Handlers :
       req[h].route \in CartRoutes
       => /\ req[h].token.kind = "jwt"
          /\ req[h].token.key = VerifySecret
          /\ loc[h].user = req[h].token.id

\* A request that starts no handler is a cart request refused by fetchUser:
\* it is answered 401 and leaves the users collection as it was.
C5_Refused ==
  (nreq' # nreq /\ pc' = pc)
  => /\ last'.req.route \in CartRoutes
     /\ last'.resp.status = 401
     /\ users' = users /\ loc' = loc /\ req' = req

\* C5: on every cart route a missing auth-token header gives 401 without a
\* call of jwt.verify, a failed verification gives 401, in both cases the
\* handler does not run and the users collection is unchanged; only after a
\* successful verification does the handler run, with the resolved user id.
\* (No request has been received at start, so it is enough that every step
\* leads to a state where the outcome of fetchUser is as stated.)
C5_SessionGate == [][C5_Gate' /\ C5_Refused]_vars

\* C5 witness: a cart request without the header has been refused.
C5_Witness ==
  /\ last.req.route \in CartRoutes
  /\ last.req.token = NoToken
  /\ last.resp.status = 401

\* C6: immediately after a successful signup the new user's stored cartData
\* has exactly the keys 0..299, each mapped to 0, and the response carries
\* a token encoding the new user's id.
C6_SignupStep ==
  \A h \in Handlers :
    (Answered(h, "signup_save") /\ last'.resp.body = "success:true")
    => /\ Len(users') = Len(users) + 1
       /\ users'[Len(users')].email = req[h].email
       /\ DOMAIN users'[Len(users')].cartData = 0..299
       /\ \A k \in 0..299 : users'[Len(users')].cartData[k] = Num(0)
       /\ last'.resp.token.kind = "jwt"
       /\ last'.resp.token.id = Len(users')

C6_FreshCart == [][C6_SignupStep]_vars

\* C6 witness: a signup has succeeded.
C6_Witness ==
  /\ last.req.route = "signup"
  /\ last.resp.body = "success:true"
  /\ last.resp.token.kind = "jwt"

\* C7: signup with an email that a stored user already has is answered 400
\* with success:false and no token, and leaves the users collection as it
\* was.
C7_DuplicateStep ==
  \A h \in Handlers :
    (pc[h] = "signup_find" /\ pc'[h] # "signup_find" /\ EmailTaken(req[h].email))
    => /\ pc'[h] = "idle"
       /\ last'.req = req[h]
       /\ last'.resp.status = 400
       /\ last'.resp.body = "success:false"
       /\ last'.resp.token = NoToken
       /\ users' = users

C7_DuplicateEmail == [][C7_DuplicateStep]_vars

\* C7 witness: a signup has been refused for its email.
C7_Witness ==
  /\ last.req.route = "signup"
  /\ last.resp.status = 400
  /\ EmailTaken(last.req.email)

\* C8: no two stored users share an email, under any interleaving of signup
\* requests, including two signups with one email that both pass the
\* existence check before either saves.
C8_UniqueEmail ==
  \A i, j \in 1..Len(users) : i # j => users[i].email # users[j].email

\* C8 witness: a signup that passed the existence check is about to save
\* an email that another signup has stored in the meantime.
C8_Witness ==
  \E h \in Handlers : pc[h] = "signup_save" /\ EmailTaken(req[h].email)

\* C9: login answers Wrong Email Id iff no stored user has the email, Wrong
\* Password iff a user has the email and its stored password differs from
\* the supplied one, and otherwise succeeds with a token encoding that
\* user's id; a token is sent only on success.
C9_LoginStep ==
  \A h \in Handlers :
    Answered(h, "login_find")
    => LET r == last'.resp
           known == EmailTaken(req[h].email)
           match == \E i \in 1..Len(users) :
                      /\ users[i].email = req[h].email
                      /\ users[i].password = req[h].password
       IN /\ last'.req = req[h]
          /\ r.body \in {"Wrong Email Id", "Wrong Password", "success:true"}
          /\ r.body = "Wrong Email Id" <=> ~known
          /\ r.body = "Wrong Password" <=> (known /\ ~match)
          /\ r.body = "success:true" <=> match
          /\ r.token # NoToken <=> r.body = "success:true"
          /\ r.body = "success:true"
             => /\ r.token.kind = "jwt"
                /\ r.token.id \in 1..Len(users)
                /\ users[r.token.id].email = req[h].email
          /\ users' = users

C9_LoginOutcomes == [][C9_LoginStep]_vars

\* C9 witness: a login with a stored email and another password was answered
\* Wrong Password.
C9_Witness ==
  /\ last.req.route = "login"
  /\ last.resp.body = "Wrong Password"
  /\ EmailTaken(last.req.email)

\* C10: a cart operation that passed fetchUser with a user id that has no
\* user record is answered with an error; no such request is left without
\* a response.
C10_UserNotFound ==
  \A h \in Handlers :
    (req[h].route \in CartRoutes /\ loc[h].user \notin 1..Len(users))
    => pc[h] \in {"add_find", "rem_find", "get_find"}

\* C11: addtocart accepts any itemId, also one outside [0,300), and after an
\* addtocart on a key that is absent from the cart the stored quantity of
\* that key is 1.
C11_AbsentStep ==
  \A h \in Handlers :
    (/\ Answered(h, "add_update")
     /\ req[h].itemId \notin DOMAIN users[loc[h].user].cartData)
    => /\ last'.resp.body = "Added"
       /\ req[h].itemId \in DOMAIN users'[loc[h].user].cartData
       /\ users'[loc[h].user].cartData[req[h].itemId] = Num(1)

C11_AbsentSlotBecomesOne == [][C11_AbsentStep]_vars

\* C12: getcart answers with exactly the cartData stored for the
\* authenticated user, the same keys with the same quantities, and leaves
\* the users collection unchanged.
C12_GetStep ==
  \A h \in Handlers :
    (Answered(h, "get_find") /\ loc[h].user \in 1..Len(users))
    => /\ last'.req = req[h]
       /\ loc[h].user = req[h].token.id
       /\ last'.resp.status = 200
       /\ DOMAIN last'.resp.cart = DOMAIN users[loc[h].user].cartData
       /\ \A k \in DOMAIN users[loc[h].user].cartData :
            last'.resp.cart[k] = users[loc[h].user].cartData[k]
       /\ users' = users

C12_GetCartVerbatim == [][C12_GetStep]_vars

\* The largest id among the stored products, 0 when there is none.
MaxProductId(list) ==
  IF Len(list) = 0 THEN 0
  ELSE CHOOSE m \in {list[i].id : i \in 1..Len(list)} :
         \A i \in 1..Len(list) : list[i].id <= m
\* No two products of the list share an id.
DistinctIds(list) ==
  \A i, j \in 1..Len(list) : i # j => list[i].id # list[j].id

\* C13: with addproduct and removeproduct requests executed one at a time,
\* every addproduct that stores a product gives it id = max(stored ids) + 1,
\* or 1 when the store is empty; no two stored products share an id; and
\* removeproduct(id) removes the product with that id and leaves the others.
C13_Step ==
  /\ DistinctIds(products')
  /\ \A h \in Handlers :
       /\ (pc[h] = "addp_find" /\ pc'[h] = "addp_save")
          => loc'[h].id = MaxProductId(products) + 1
       /\ (Answered(h, "addp_save") /\ last'.resp.status = 200)
          => /\ Len(products') = Len(products) + 1
             /\ SubSeq(products', 1, Len(products)) = products
             /\ products'[Len(products')].id = MaxProductId(products) + 1
             /\ products'[Len(products')].name = req[h].name
       /\ (Answered(h, "remp_delete") /\ last'.resp.status = 200)
          => /\ \A i \in 1..Len(products') : products'[i].id # req[h].id
             /\ \A i \in 1..Len(products) :
                  products[i].id # req[h].id
                  => \E j \in 1..Len(products') : products'[j] = products[i]
             /\ Len(products') >= Len(products) - 1

C13_SequentialIds == [][C13_Step]_vars

\* C13 witness: after two addproduct, removeproduct(1) and another
\* addproduct the stored ids are 2 and 3.
C13_Witness ==
  /\ Quiet
  /\ Len(products) = 2
  /\ products[1].id = 2
  /\ products[2].id = 3

\* C14: a cart mutation reads the whole cartData map and later writes the
\* whole map it read, with its own change, back over the stored one, so two
\* concurrent mutations of one user can both read the same map and the
\* stored cart then reflects only the one that writes last.
C14_WriteBackStep ==
  \A h \in Handlers :
    /\ (pc[h] = "add_find" /\ pc'[h] = "add_update")
       => loc'[h].cartData =
            AddToCart(users[loc[h].user].cartData, req[h].itemId)
    /\ (pc[h] = "rem_find" /\ pc'[h] = "rem_update")
       => loc'[h].cartData =
            RemoveFromCart(users[loc[h].user].cartData, req[h].itemId)
    /\ (Answered(h, "add_update") \/ Answered(h, "rem_update"))
       => users'[loc[h].user].cartData = loc[h].cartData

C14_LostUpdate == [][C14_WriteBackStep]_vars

\* C14 witness: two addtocart on one slot of one user have both completed
\* and the stored quantity is 1.
C14_Witness ==
  \E u \in UserIds, s \in ItemIds \cap SlotRange :
    /\ Quiet
    /\ u \in 1..Len(users)
    /\ tally[u, s] = [adds |-> 2, rems |-> 0, ordered |-> TRUE]
    /\ users[u].cartData[s] = Num(1)

\* C15: two concurrent addproduct requests can both read the product list
\* before either saves and compute the same id; the save of a valid product
\* is accepted whatever ids are stored, so both persist and two stored
\* products share an id.
C15_SaveStep ==
  \A h \in Handlers :
    /\ (pc[h] = "addp_find" /\ pc'[h] = "addp_save")
       => loc'[h].id = (IF Len(products) > 0
                        THEN products[Len(products)].id + 1 ELSE 1)
    /\ (Answered(h, "addp_save") /\ req[h].complete)
       => /\ last'.resp.status = 200
          /\ products' = Append(products, [id |-> loc[h].id,
                                           name |-> req[h].name])

C15_DuplicateIds == [][C15_SaveStep]_vars

\* C15 witness: both requests have been answered and two stored products
\* have the same id.
C15_Witness ==
  /\ Quiet
  /\ \E i, j \in 1..Len(products) :
       i # j /\ products[i].id = products[j].id

\* C16: every request receives a response, its success result or an error
\* outcome: no handler stops on a failure (an unknown user id in a cart
\* handler, a save the store rejects) with its request left unanswered.
C16_EveryRequestAnswered ==
  \A h \in Handlers : pc[h] # "threw"

\* C17: an addtocart or removefromcart authenticated as user u changes
\* only u's cartData: the number of users, every other user's record, and
\* u's name, email and password stay as they were, whatever other requests
\* are in progress.
C17_FrameStep ==
  \A h \in Handlers :
    (Answered(h, "add_update") \/ Answered(h, "rem_update"))
    => /\ loc[h].user = req[h].token.id
       /\ Len(users') = Len(users)
       /\ \A v \in 1..Len(users) :
            IF v = req[h].token.id
            THEN /\ users'[v].name = users[v].name
                 /\ users'[v].email = users[v].email
                 /\ users'[v].password = users[v].password
            ELSE users'[v] = users[v]

C17_OnlyOwnCart == [][C17_FrameStep]_vars

\* C17 witness: two users are stored and the second one has completed a
\* cart mutation that changed its cart.
C17_Witness ==
  /\ Quiet
  /\ Len(users) = 2
  /\ \E s \in ItemIds : tally[2, s].adds + tally[2, s].rems >= 1
  /\ users[2].cartData # users[1].cartData

\* C18: when every addtocart and removefromcart names a slot in [0,300),
\* the key set of every stored user's cartData is exactly 0..299 in every
\* reachable state.
C18_SlotsFixed ==
  \A u \in 1..Len(users) : DOMAIN users[u].cartData = 0..299

\* C18 witness: an addtocart and a removefromcart of one user have completed.
C18_Witness ==
  \E u \in UserIds, s, t \in ItemIds :
    /\ Quiet
    /\ u \in 1..Len(users)
    /\ tally[u, s].adds >= 1
    /\ tally[u, t].rems >= 1

====
